---- MODULE Spec2Model ----
(***************************************************************************)
(* A model of the Skolmaten add-on: the page-text parser and fetch         *)
(* orchestrator of rootfs/usr/bin/skolmaten.py, and the assembler and      *)
(* update scheduler of rootfs/usr/bin/skolmaten-main.py.                   *)
(*                                                                         *)
(* Python values are represented as follows.  A str is a TLA+ string and   *)
(* is inspected character by character (Len, SubSeq).  None is the empty   *)
(* tuple and a present optional value v is <<v>>.  A list is a sequence.   *)
(* page_text is represented by the list page_text.split("\n").            *)
(***************************************************************************)
EXTENDS Integers, Sequences, FiniteSets, TLC

VARIABLES
    \* ---- parser harness (SkolmatenAPI._parse_menu_data on its own)
    page_text,      \* the container text, as page_text.split("\n")
    week_title,     \* the week title string
    menu_list,      \* the list _parse_menu_data returns
    parse_pc,       \* "idle" | "start" | "returned"
    \* ---- fetch harness (get_school_menu called with next_week=...)
    also_next_week, \* the argument of get_menu
    driver,         \* self.driver: "none" | "open"
    fetch_pc,       \* the statement of get_school_menu / get_menu to execute next
    selector_idx,   \* the position of the for loop over selectors
    next_week_button, \* None, or Some(k): the element found under selectors[k]
    fetch_menu,     \* menu_list of get_menu
    current_entries, \* history: what the parse of the current week returned
    next_entries,   \* history: what the parse of the next week returned
    steps,          \* history: the collaborator operations performed, with outcome
    gm_outcome,     \* how get_menu ended: "none" | "returned" | "raised"
    fetch_outcome,  \* how get_school_menu ended: "none" | "returned" | "raised"
    sessions,       \* the number of browser sessions that are open
    fetch_published, \* None, or Some(what update_school_sensor published for the fetch)
    \* ---- assembler harness (update_school_sensor after the fetch returned)
    menu_data,      \* the entries handed to the assembler
    today,          \* date.today(), as [year, month, day]
    current_menu,   \* what _get_current_menu returned
    asm_payload,    \* None, or Some(the arguments given to ha_api.create_sensor)
    asm_pc,         \* "idle" | "start" | "returned" | "published"
    \* ---- scheduler (SkolmatenAddon.run)
    schools_env,    \* the environment variable SCHOOLS, as json.loads sees it
    schools,        \* self.schools, the list _load_config returned
    update_interval, \* self.update_interval
    n_weeks,        \* self.n_weeks
    call_site,      \* which call of update_all_schools runs: "initial" | "loop"
    pc,             \* the statement of run / update_all_schools / update_school_sensor
    school_idx,     \* the position of the for loop over self.schools
    to_publish,     \* the arguments prepared for ha_api.create_sensor
    cycle_log       \* history: what the current cycle did, in order

parse_vars == <<page_text, week_title, menu_list, parse_pc>>

asm_vars == <<menu_data, today, current_menu, asm_payload, asm_pc>>

sched_vars == <<schools_env, schools, update_interval, n_weeks, call_site, pc, school_idx, to_publish,
                cycle_log>>

fetch_vars == <<also_next_week, driver, fetch_pc, selector_idx, next_week_button,
                fetch_menu, current_entries, next_entries, steps, gm_outcome,
                fetch_outcome, sessions, fetch_published>>

vars == <<parse_vars, fetch_vars, asm_vars, sched_vars>>

-----------------------------------------------------------------------------
(* Bounds of the model *)

\* longest page text, in lines, that the parser harness enumerates
MaxLines == 4

-----------------------------------------------------------------------------
(* Python values *)

None == <<>>
Some(v) == <<v>>

\* Python: sub in s
Contains(s, sub) ==
    \E i \in 1..(Len(s) - Len(sub) + 1) : SubSeq(s, i, i + Len(sub) - 1) = sub

UpperChars == <<"A", "B", "C", "D", "E", "F", "G", "H", "I", "J", "K", "L", "M",
                "N", "O", "P", "Q", "R", "S", "T", "U", "V", "W", "X", "Y", "Z",
                "Å", "Ä", "Ö">>
LowerChars == <<"a", "b", "c", "d", "e", "f", "g", "h", "i", "j", "k", "l", "m",
                "n", "o", "p", "q", "r", "s", "t", "u", "v", "w", "x", "y", "z",
                "å", "ä", "ö">>

LowerChar(c) ==
    IF \E k \in 1..Len(UpperChars) : UpperChars[k] = c
    THEN LowerChars[CHOOSE k \in 1..Len(UpperChars) : UpperChars[k] = c]
    ELSE c

\* Python: s.lower()
RECURSIVE Lower(_)
Lower(s) ==
    IF Len(s) = 0 THEN ""
    ELSE LowerChar(SubSeq(s, 1, 1)) \o Lower(SubSeq(s, 2, Len(s)))

IsSpace(c) == c \in {" ", "\t", "\r"}

\* Python: s.strip()
RECURSIVE LStrip(_)
LStrip(s) ==
    IF Len(s) > 0 /\ IsSpace(SubSeq(s, 1, 1)) THEN LStrip(SubSeq(s, 2, Len(s))) ELSE s

RECURSIVE RStrip(_)
RStrip(s) ==
    IF Len(s) > 0 /\ IsSpace(SubSeq(s, Len(s), Len(s)))
    THEN RStrip(SubSeq(s, 1, Len(s) - 1)) ELSE s

Strip(s) == RStrip(LStrip(s))

\* Python: s.split(), the whitespace-delimited tokens of s
RECURSIVE SplitFrom(_, _, _)
SplitFrom(s, cur, acc) ==
    IF Len(s) = 0 THEN (IF cur = "" THEN acc ELSE Append(acc, cur))
    ELSE LET c == SubSeq(s, 1, 1)
             rest == SubSeq(s, 2, Len(s))
         IN  IF IsSpace(c)
             THEN SplitFrom(rest, "", IF cur = "" THEN acc ELSE Append(acc, cur))
             ELSE SplitFrom(rest, cur \o c, acc)

Split(s) == SplitFrom(s, "", <<>>)

AsciiDigits == <<"0", "1", "2", "3", "4", "5", "6", "7", "8", "9">>

\* the characters \d matches and int() accepts, among those the model's texts use
IsDecimalChar(c) == \E k \in 1..10 : AsciiDigits[k] = c

\* the characters str.isdigit() accepts: the decimals and the superscript digits,
\* which int() rejects with ValueError
IsDigitChar(c) == IsDecimalChar(c) \/ c \in {"²", "³"}

\* Python: tok.isdigit()
isdigit(tok) == Len(tok) > 0 /\ \A i \in 1..Len(tok) : IsDigitChar(SubSeq(tok, i, i))

\* Python: int(tok) returns a value (otherwise it raises ValueError)
IntParses(tok) == Len(tok) > 0 /\ \A i \in 1..Len(tok) : IsDecimalChar(SubSeq(tok, i, i))

DigitValue(c) == (CHOOSE k \in 1..10 : AsciiDigits[k] = c) - 1

\* Python: int(tok), for a tok that int() accepts
RECURSIVE IntOf(_)
IntOf(tok) ==
    IF Len(tok) = 0 THEN 0
    ELSE 10 * IntOf(SubSeq(tok, 1, Len(tok) - 1)) + DigitValue(SubSeq(tok, Len(tok), Len(tok)))

-----------------------------------------------------------------------------
(* SkolmatenAPI._parse_menu_data: the classification of one line *)

swedish_days == <<"måndag", "tisdag", "onsdag", "torsdag", "fredag">>
english_days == <<"monday", "tuesday", "wednesday", "thursday", "friday">>
all_days == swedish_days \o english_days

\* any(d in next_line.lower() for d in all_days)
contains_day(line) ==
    LET line_lower == Lower(line)
    IN  \E k \in 1..Len(all_days) : Contains(line_lower, all_days[k])

\* re.match(r"^\d{4}-\d{2}-\d{2}$", next_line)
matches_date(next_line) ==
    /\ Len(next_line) = 10
    /\ \A i \in {1, 2, 3, 4, 6, 7, 9, 10} : IsDecimalChar(SubSeq(next_line, i, i))
    /\ \A i \in {5, 8} : SubSeq(next_line, i, i) = "-"

\* next_line and len(next_line) > 5
long_enough_ge(next_line) == Len(next_line) >= 5
long_enough(next_line) == Len(next_line) > 5

\* "Med reservation" in next_line
has_disclaimer(next_line) == Contains(next_line, "Med reservation")

\* the classification of every line the model's pages hold, computed once
RawLines ==
    { "Måndag 3 mars", "Tisdag 4 mars", "2024-03-04", "2024-03-05",
      "Köttbullar med potatismos", "Fisk Björkeby", " Soppa ",
      "Med reservation för ändringar", "  " }

StripTable == [raw \in RawLines |-> Strip(raw)]

DayTable == [line \in {StripTable[raw] : raw \in RawLines} |-> contains_day(line)]

is_day_line(line) == DayTable[line]

\* lines = [line.strip() for line in page_text.split("\n") if line.strip()]
RECURSIVE split_lines(_)
split_lines(text) ==
    IF text = <<>> THEN <<>>
    ELSE LET line == StripTable[Head(text)]
         IN  IF line # "" THEN <<line>> \o split_lines(Tail(text))
             ELSE split_lines(Tail(text))

-----------------------------------------------------------------------------
(* SkolmatenAPI._parse_menu_data: the week number of an entry *)

\* week_title.split()[-1] raises IndexError, or int() raises ValueError; either
\* is caught by the except clause around the whole parse
week_raises(title) ==
    /\ title # "Unknown Week"
    /\ LET toks == Split(title)
       IN  \/ toks = <<>>
           \/ isdigit(toks[Len(toks)]) /\ ~IntParses(toks[Len(toks)])

\* int(week_title.split()[-1]) if week_title != "Unknown Week"
\*     and week_title.split()[-1].isdigit() else None
week_of(title) ==
    LET toks == Split(title)
    IN  IF title # "Unknown Week" /\ isdigit(toks[Len(toks)])
        THEN Some(IntOf(toks[Len(toks)]))
        ELSE None

WeekTitles == {"Vecka 10", "Unknown Week", "Veckans meny", "", "Vecka ²"}

WeekTable == [title \in WeekTitles \cup {"Vecka 11"} |->
                 IF week_raises(title) THEN [raises |-> TRUE, week |-> None]
                 ELSE [raises |-> FALSE, week |-> week_of(title)]]

-----------------------------------------------------------------------------
(* SkolmatenAPI._parse_menu_data: the line scan *)

\* current_date = next_line
first_date_wins(current_date, next_line) ==
    IF current_date = None THEN Some(next_line) ELSE current_date
record_date(current_date, next_line) == Some(next_line)

\* the while loop over j: the look-ahead over the lines after a day label
RECURSIVE scan_section(_, _, _, _)
scan_section(lines, j, menu_items, current_date) ==
    IF j > Len(lines) THEN [menu_items |-> menu_items, current_date |-> current_date]
    ELSE LET next_line == lines[j]
         IN  IF is_day_line(next_line)
             THEN [menu_items |-> menu_items, current_date |-> current_date]
             ELSE IF long_enough(next_line)
             THEN IF ~matches_date(next_line)
                  THEN IF ~has_disclaimer(next_line)
                       THEN scan_section(lines, j + 1, Append(menu_items, next_line),
                                         current_date)
                       ELSE scan_section(lines, j + 1, menu_items, current_date)
                  ELSE scan_section(lines, j + 1, menu_items,
                                    record_date(current_date, next_line))
             ELSE scan_section(lines, j + 1, menu_items, current_date)

\* the for loop over i, with the entries built so far; an exception raised while
\* building an entry ends the scan and the entries built so far are returned
RECURSIVE scan_lines(_, _, _, _, _)
scan_lines(lines, i, current_date, entries, title) ==
    IF i > Len(lines) THEN entries
    ELSE IF is_day_line(lines[i])
    THEN LET r == scan_section(lines, i + 1, <<>>, current_date)
         IN  IF r.menu_items # <<>>
             THEN IF WeekTable[title].raises
                  THEN entries
                  ELSE scan_lines(lines, i + 1, r.current_date,
                                  Append(entries, [weekday |-> lines[i],
                                                   date |-> r.current_date,
                                                   week |-> WeekTable[title].week,
                                                   courses |-> r.menu_items]),
                                  title)
             ELSE scan_lines(lines, i + 1, r.current_date, entries, title)
    ELSE scan_lines(lines, i + 1, current_date, entries, title)

\* _parse_menu_data for a container text and week title that were read
parse_menu_data(text, title) == scan_lines(split_lines(text), 1, None, <<>>, title)

-----------------------------------------------------------------------------
(* The parser on its own: every page text of at most MaxLines lines, and the  *)
(* example page of the specification, under every week title                 *)

ScenarioText ==
    <<"Måndag 3 mars", "2024-03-04", "Köttbullar med potatismos", "Tisdag 4 mars",
      "Fisk Björkeby">>

PageTexts ==
    UNION {[1..n -> RawLines] : n \in 0..MaxLines} \cup {ScenarioText}

ParseInit ==
    /\ page_text \in PageTexts
    /\ week_title \in WeekTitles
    /\ menu_list = <<>>
    /\ parse_pc = "start"

ParseCall ==
    /\ parse_pc = "start"
    /\ menu_list' = parse_menu_data(page_text, week_title)
    /\ parse_pc' = "returned"
    /\ UNCHANGED <<page_text, week_title, fetch_vars, asm_vars, sched_vars>>

ParseIdle ==
    /\ page_text = <<>>
    /\ week_title = "Unknown Week"
    /\ menu_list = <<>>
    /\ parse_pc = "idle"

-----------------------------------------------------------------------------
(* get_school_menu and SkolmatenAPI.get_menu                                  *)
(*                                                                         *)
(* Every operation on the browser may fail.  steps records each operation  *)
(* performed, named after the statement that performs it, with its outcome. *)

\* the pages the browser may show when the container text is read
FetchPages ==
    { [text |-> ScenarioText, title |-> "Vecka 10"],
      [text |-> <<"Tisdag 4 mars", "2024-03-05", "Fisk Björkeby">>, title |-> "Vecka 11"],
      [text |-> <<"  ">>, title |-> "Veckans meny"] }

selectors == <<"Nästa vecka", "Next week", "nästa vecka", "next week">>

Step(op, ok) == [op |-> op, ok |-> ok]

Failed(op) == \E k \in 1..Len(steps) : steps[k] = Step(op, FALSE)
Performed(op) == \E k \in 1..Len(steps) : steps[k].op = op

\* _parse_menu_data as get_menu calls it: the wait, the two reads and the scan.
\* A failed wait or text read is caught by the except clause and the empty
\* menu_list is returned; a failed title read gives the title "Unknown Week".
ParseOutcomes == {"ok", "wait_failed", "text_failed", "title_failed"}

parse_steps(which, outcome) ==
    CASE outcome = "wait_failed" ->
             <<Step(which \o ".wait", FALSE), Step(which \o ".page_source", TRUE)>>
      [] outcome = "text_failed" ->
             <<Step(which \o ".wait", TRUE), Step(which \o ".text", FALSE),
               Step(which \o ".page_source", TRUE)>>
      [] outcome = "title_failed" ->
             <<Step(which \o ".wait", TRUE), Step(which \o ".text", TRUE),
               Step(which \o ".title", FALSE)>>
      [] OTHER ->
             <<Step(which \o ".wait", TRUE), Step(which \o ".text", TRUE),
               Step(which \o ".title", TRUE)>>

parse_page(outcome, page) ==
    IF outcome \in {"wait_failed", "text_failed"} THEN <<>>
    ELSE parse_menu_data(page.text,
                         IF outcome = "title_failed" THEN "Unknown Week" ELSE page.title)

\* where get_menu goes when a statement of its try block raises: the except
\* clause, which logs and re-raises
retry_navigation == "get"
on_exception == "except"

\* menu_list += next_week_menu
replace_menu(current, next_week_menu) == next_week_menu
extend_menu(current, next_week_menu) == current \o next_week_menu

FetchInit ==
    /\ also_next_week \in BOOLEAN
    /\ driver = "none"
    /\ fetch_pc = "enter"
    /\ selector_idx = 1
    /\ next_week_button = None
    /\ fetch_menu = <<>>
    /\ current_entries = None
    /\ next_entries = None
    /\ steps = <<>>
    /\ gm_outcome = "none"
    /\ fetch_outcome = "none"
    /\ sessions = 0
    /\ fetch_published = None

FetchIdle ==
    /\ also_next_week = FALSE
    /\ driver = "none"
    /\ fetch_pc = "idle"
    /\ selector_idx = 1
    /\ next_week_button = None
    /\ fetch_menu = <<>>
    /\ current_entries = None
    /\ next_entries = None
    /\ steps = <<>>
    /\ gm_outcome = "none"
    /\ fetch_outcome = "none"
    /\ sessions = 0
    /\ fetch_published = None

\* with SkolmatenAPI(...) as api: __enter__ starts the browser, or raises
FetchEnter ==
    /\ fetch_pc = "enter"
    /\ \E started \in BOOLEAN :
          IF started
          THEN /\ driver' = "open"
               /\ sessions' = sessions + 1
               /\ fetch_pc' = "get"
               /\ UNCHANGED fetch_outcome
          ELSE /\ driver' = "none"
               /\ sessions' = sessions
               /\ fetch_pc' = "done"
               /\ fetch_outcome' = "raised"
    /\ UNCHANGED <<parse_vars, asm_vars, sched_vars>>
    /\ UNCHANGED fetch_published
    /\ UNCHANGED <<also_next_week, selector_idx, next_week_button, fetch_menu,
                   current_entries, next_entries, steps, gm_outcome>>

\* self.driver.get(url); page_title = ...; current_url = ...
GetUrl ==
    /\ fetch_pc = "get"
    /\ \E outcome \in {"ok", "get_failed", "title_failed"} :
          /\ steps' = steps \o
                 CASE outcome = "get_failed" -> <<Step("get", FALSE)>>
                   [] outcome = "title_failed" ->
                          <<Step("get", TRUE), Step("page_title", FALSE)>>
                   [] OTHER -> <<Step("get", TRUE), Step("page_title", TRUE)>>
          /\ fetch_pc' = IF outcome = "ok" THEN "wait" ELSE on_exception
    /\ UNCHANGED <<parse_vars, asm_vars, sched_vars>>
    /\ UNCHANGED <<sessions, fetch_published>>
    /\ UNCHANGED <<also_next_week, driver, selector_idx, next_week_button, fetch_menu,
                   current_entries, next_entries, gm_outcome, fetch_outcome>>

\* WebDriverWait(self.driver, 10).until(presence of menu-container)
WaitContainer ==
    /\ fetch_pc = "wait"
    /\ \E ok \in BOOLEAN :
          /\ steps' = Append(steps, Step("wait", ok))
          /\ fetch_pc' = IF ok THEN "parse_current" ELSE on_exception
    /\ UNCHANGED <<parse_vars, asm_vars, sched_vars>>
    /\ UNCHANGED <<sessions, fetch_published>>
    /\ UNCHANGED <<also_next_week, driver, selector_idx, next_week_button, fetch_menu,
                   current_entries, next_entries, gm_outcome, fetch_outcome>>

\* menu_list = self._parse_menu_data(school_name); if also_next_week: ...
FetchParseCurrent ==
    /\ fetch_pc = "parse_current"
    /\ \E outcome \in ParseOutcomes, page \in FetchPages :
          /\ steps' = steps \o parse_steps("parse_current", outcome)
          /\ fetch_menu' = parse_page(outcome, page)
          /\ current_entries' = Some(parse_page(outcome, page))
    /\ fetch_pc' = IF also_next_week THEN "find_button" ELSE "return"
    /\ UNCHANGED <<parse_vars, asm_vars, sched_vars>>
    /\ UNCHANGED <<sessions, fetch_published>>
    /\ UNCHANGED <<also_next_week, driver, selector_idx, next_week_button,
                   next_entries, gm_outcome, fetch_outcome>>

\* one iteration of: for selector in selectors: try: wait for the element,
\* read its text, break; except: continue.  After the loop: the button is
\* clicked if one was assigned, else the missing control is logged.
TrySelector ==
    /\ fetch_pc = "find_button"
    /\ selector_idx <= Len(selectors)
    /\ \E outcome \in {"not_found", "found", "text_failed"} :
          LET sel == "selector" \o ToString(selector_idx)
              button == IF outcome = "not_found" THEN next_week_button
                        ELSE Some(selector_idx)
              leaves == outcome = "found" \/ selector_idx = Len(selectors)
          IN  /\ steps' = steps \o
                     (CASE outcome = "not_found" -> <<Step(sel, FALSE)>>
                        [] outcome = "found" ->
                               <<Step(sel, TRUE), Step(sel \o ".text", TRUE)>>
                        [] OTHER -> <<Step(sel, TRUE), Step(sel \o ".text", FALSE)>>)
                     \o (IF leaves /\ button = None
                         THEN <<Step("find_elements", TRUE)>> ELSE <<>>)
              /\ next_week_button' = button
              /\ selector_idx' = IF leaves THEN selector_idx ELSE selector_idx + 1
              /\ fetch_pc' = IF ~leaves THEN "find_button"
                             ELSE IF button # None THEN "click" ELSE "return"
    /\ UNCHANGED <<parse_vars, asm_vars, sched_vars>>
    /\ UNCHANGED <<sessions, fetch_published>>
    /\ UNCHANGED <<also_next_week, driver, fetch_menu, current_entries, next_entries,
                   gm_outcome, fetch_outcome>>

\* next_week_button.click()
ClickNextWeek ==
    /\ fetch_pc = "click"
    /\ \E ok \in BOOLEAN :
          /\ steps' = Append(steps, Step("click", ok))
          /\ fetch_pc' = IF ok THEN "wait_next" ELSE on_exception
    /\ UNCHANGED <<parse_vars, asm_vars, sched_vars>>
    /\ UNCHANGED <<sessions, fetch_published>>
    /\ UNCHANGED <<also_next_week, driver, selector_idx, next_week_button, fetch_menu,
                   current_entries, next_entries, gm_outcome, fetch_outcome>>

\* where get_menu goes when the wait after the click times out: the wait is
\* inside the try block of get_menu
keep_current_week == "return"
after_next_week_timeout == on_exception

\* WebDriverWait(self.driver, 5).until(presence of menu-container)
WaitNextWeek ==
    /\ fetch_pc = "wait_next"
    /\ \E ok \in BOOLEAN :
          /\ steps' = Append(steps, Step("wait_next", ok))
          /\ fetch_pc' = IF ok THEN "parse_next" ELSE after_next_week_timeout
    /\ UNCHANGED <<parse_vars, asm_vars, sched_vars>>
    /\ UNCHANGED <<sessions, fetch_published>>
    /\ UNCHANGED <<also_next_week, driver, selector_idx, next_week_button, fetch_menu,
                   current_entries, next_entries, gm_outcome, fetch_outcome>>

\* next_week_menu = self._parse_menu_data(school_name); menu_list += next_week_menu
FetchParseNextWeek ==
    /\ fetch_pc = "parse_next"
    /\ \E outcome \in ParseOutcomes, page \in FetchPages :
          /\ steps' = steps \o parse_steps("parse_next", outcome)
          /\ fetch_menu' = extend_menu(fetch_menu, parse_page(outcome, page))
          /\ next_entries' = Some(parse_page(outcome, page))
    /\ fetch_pc' = "return"
    /\ UNCHANGED <<parse_vars, asm_vars, sched_vars>>
    /\ UNCHANGED <<sessions, fetch_published>>
    /\ UNCHANGED <<also_next_week, driver, selector_idx, next_week_button,
                   current_entries, gm_outcome, fetch_outcome>>

\* return menu_list
GetMenuReturn ==
    /\ fetch_pc = "return"
    /\ gm_outcome' = "returned"
    /\ fetch_pc' = "exit"
    /\ UNCHANGED <<parse_vars, asm_vars, sched_vars>>
    /\ UNCHANGED <<sessions, fetch_published>>
    /\ UNCHANGED <<also_next_week, driver, selector_idx, next_week_button, fetch_menu,
                   current_entries, next_entries, steps, fetch_outcome>>

\* except Exception: log, read page_source for the log, raise
GetMenuExcept ==
    /\ fetch_pc = "except"
    /\ steps' = Append(steps, Step("page_source", TRUE))
    /\ gm_outcome' = "raised"
    /\ fetch_pc' = "exit"
    /\ UNCHANGED <<parse_vars, asm_vars, sched_vars>>
    /\ UNCHANGED <<sessions, fetch_published>>
    /\ UNCHANGED <<also_next_week, driver, selector_idx, next_week_button, fetch_menu,
                   current_entries, next_entries, fetch_outcome>>

\* the with statement calls __exit__ however its body ended
exit_on_return_only(outcome) == outcome = "returned"
exit_called(outcome) == TRUE

\* __exit__: close(): if self.driver: self.driver.quit(); self.driver = None.
\* quit() of the Chrome driver reports no error of its own: it ends the
\* browser and the driver process whatever the quit command answers.  What
\* get_menu returned or raised is then what get_school_menu returns or raises.
FetchExit ==
    /\ fetch_pc = "exit"
    /\ IF exit_called(gm_outcome) /\ driver # "none"
       THEN /\ sessions' = sessions - 1
            /\ driver' = "none"
       ELSE UNCHANGED <<sessions, driver>>
    /\ fetch_outcome' = gm_outcome
    /\ fetch_pc' = "done"
    /\ UNCHANGED <<parse_vars, asm_vars, sched_vars>>
    /\ UNCHANGED fetch_published
    /\ UNCHANGED <<also_next_week, selector_idx, next_week_button, fetch_menu,
                   current_entries, next_entries, steps, gm_outcome>>

FetchStep ==
    \/ FetchEnter
    \/ GetUrl
    \/ WaitContainer
    \/ FetchParseCurrent
    \/ TrySelector
    \/ ClickNextWeek
    \/ WaitNextWeek
    \/ FetchParseNextWeek
    \/ GetMenuReturn
    \/ GetMenuExcept
    \/ FetchExit

-----------------------------------------------------------------------------
(* SkolmatenAddon._get_current_menu and the sensor state                      *)

\* str(n) padded with zeros to width digits, as date.isoformat() writes a field
RECURSIVE ZeroPad(_, _)
ZeroPad(str, width) == IF Len(str) >= width THEN str ELSE ZeroPad("0" \o str, width)

\* date.isoformat(): YYYY-MM-DD
isoformat(d) ==
    ZeroPad(ToString(d.year), 4) \o "-" \o ZeroPad(ToString(d.month), 2)
        \o "-" \o ZeroPad(ToString(d.day), 2)

\* for menu_item in menu_data: if menu_item.get('date') == today: return menu_item
\* return None
RECURSIVE last_match(_, _)
last_match(data, today_iso) ==
    IF data = <<>> THEN None
    ELSE IF data[Len(data)].date = Some(today_iso) THEN Some(data[Len(data)])
    ELSE last_match(SubSeq(data, 1, Len(data) - 1), today_iso)
RECURSIVE get_current_menu(_, _)
get_current_menu(data, today_iso) ==
    IF data = <<>> THEN None
    ELSE IF Head(data).date = Some(today_iso) THEN Some(Head(data))
    ELSE get_current_menu(Tail(data), today_iso)

\* ", ".join(courses)
RECURSIVE join_courses(_)
join_courses(courses) ==
    IF courses = <<>> THEN ""
    ELSE IF Len(courses) = 1 THEN courses[1]
    ELSE courses[1] \o ", " \o join_courses(Tail(courses))

\* the limit of the sensor state, in characters
StateLimit == 255

\* state = ", ".join(current_menu.get('courses', []))[:255] if current_menu
\*         else "No menu for today"
sensor_state_uncut(current) ==
    IF current # None THEN join_courses(current[1].courses) ELSE "No menu for today"
sensor_state(current) ==
    IF current # None
    THEN LET joined == join_courses(current[1].courses)
         IN  IF Len(joined) > StateLimit THEN SubSeq(joined, 1, StateLimit) ELSE joined
    ELSE "No menu for today"

\* the entries and days the assembler harness enumerates
MaxEntries == 3

\* a course line of n characters
RECURSIVE Filler(_)
Filler(n) ==
    IF n = 0 THEN ""
    ELSE IF n % 2 = 1 THEN "a" \o Filler(n - 1)
    ELSE LET half == Filler(n \div 2) IN half \o half

\* course lists whose joined text is short, is 255 characters, is 256 characters
ShortCourses == <<"Fisk Björkeby">>
FittingCourses == <<Filler(126), Filler(127)>>
LongCourses == <<Filler(127), Filler(127)>>

\* every date with every week; each date comes with each of the course lists
AsmCourses ==
    <<ShortCourses, FittingCourses, LongCourses,
      LongCourses, ShortCourses, FittingCourses,
      FittingCourses, LongCourses, ShortCourses>>

AsmDates == <<None, Some("2024-03-04"), Some("2024-03-05")>>

AsmWeeks == <<None, Some(10), Some(11)>>

AsmEntries ==
    { [weekday |-> "Måndag 3 mars",
       date |-> AsmDates[d],
       week |-> AsmWeeks[w],
       courses |-> AsmCourses[3 * (d - 1) + w]] : d \in 1..3, w \in 1..3 }

Todays ==
    { [year |-> 2024, month |-> 3, day |-> 4],
      [year |-> 2024, month |-> 3, day |-> 5],
      [year |-> 2024, month |-> 3, day |-> 6] }

AsmInit ==
    /\ menu_data \in UNION {[1..n -> AsmEntries] : n \in 0..MaxEntries}
    /\ today \in Todays
    /\ current_menu = None
    /\ asm_payload = None
    /\ asm_pc = "start"

AsmIdle ==
    /\ menu_data = <<>>
    /\ today = [year |-> 2024, month |-> 3, day |-> 4]
    /\ current_menu = None
    /\ asm_payload = None
    /\ asm_pc = "idle"

GetCurrentMenu ==
    /\ asm_pc = "start"
    /\ current_menu' = get_current_menu(menu_data, isoformat(today))
    /\ asm_pc' = "returned"
    /\ UNCHANGED <<menu_data, today, asm_payload, parse_vars, fetch_vars, sched_vars>>

-----------------------------------------------------------------------------
(* SkolmatenAddon: the sensor payloads *)

\* Python: s.replace(old, new), for one-character old and new
RECURSIVE ReplaceFrom(_, _, _, _)
ReplaceFrom(str, i, old, new) ==
    IF i > Len(str) THEN ""
    ELSE (IF SubSeq(str, i, i) = old THEN new ELSE SubSeq(str, i, i))
             \o ReplaceFrom(str, i + 1, old, new)

Replace(str, old, new) == ReplaceFrom(str, 1, old, new)

\* entity_id = f"sensor.skolmaten_{school_slug.replace('-', '_')}"
entity_id_unreplaced(school_slug) == "sensor.skolmaten_" \o school_slug
entity_id(school_slug) == "sensor.skolmaten_" \o Replace(school_slug, "-", "_")

\* week = str(menu_item.get('week', 'Unknown')): every entry the parser builds
\* has the key 'week', so the default is never used and an absent week is str(None)
week_key(menu_item) ==
    IF menu_item.week = None THEN "None" ELSE ToString(menu_item.week[1])

\* _create_calendar_structure: the entries of each week key, in order
create_calendar_structure(data) ==
    [week \in {week_key(data[k]) : k \in 1..Len(data)} |->
        SelectSeq(data, LAMBDA menu_item : week_key(menu_item) = week)]

\* the payload of the except branch of the fetch
error_payload(school) ==
    [entity_id |-> entity_id(school.slug),
     state |-> "Error fetching menu",
     icon |-> "mdi:alert-circle",
     calendar |-> create_calendar_structure(<<>>)]

\* the payload of the branch: if not menu_data
no_data_payload(school) ==
    [entity_id |-> entity_id(school.slug),
     state |-> "No menu data available",
     icon |-> "mdi:food-off",
     calendar |-> create_calendar_structure(<<>>)]

\* the payload built from the entries and today's entry
menu_payload(school, data, today_iso) ==
    [entity_id |-> entity_id(school.slug),
     state |-> sensor_state(get_current_menu(data, today_iso)),
     icon |-> "mdi:food",
     calendar |-> create_calendar_structure(data)]

-----------------------------------------------------------------------------
(* SkolmatenAddon.run, update_all_schools and update_school_sensor            *)

\* def get_school_menu(school_name, next_week=False, headless=True)
get_school_menu_params == {"school_name", "next_week", "headless"}

\* get_school_menu(school_slug, n_weeks=self.n_weeks): the keyword of the call
call_keywords == {"n_weeks"}

\* Python binds the arguments before the body of the function runs, and raises
\* TypeError for a keyword that names no parameter
call_binds == call_keywords \subseteq get_school_menu_params

\* what the call of get_school_menu gives update_school_sensor, for a page
\* that renders or does not: the TypeError of the call comes before anything
\* of get_school_menu runs
get_school_menu_result(renders, page) ==
    IF call_binds /\ renders
    THEN [raised |-> FALSE, entries |-> parse_menu_data(page.text, page.title)]
    ELSE [raised |-> TRUE, entries |-> <<>>]

\* the value of next_week in the call: the call does not pass it, so where a
\* call binds it is the default of the parameter
next_week_of_call == IF call_binds THEN Some(FALSE) ELSE None

\* the schools a configuration may name; a record with an empty slug passes
\* the validation of _load_config ('slug' in school)
SchoolCatalogue ==
    { [name |-> "Svenstorps förskola", slug |-> "svenstorps-forskola"],
      [name |-> "Hovägens förskola", slug |-> "hovagens-forskola"],
      [name |-> "Utan slug", slug |-> ""] }

\* most schools in a configuration
MaxSchools == 2

\* what the JSON list of SCHOOLS may hold: a school of the catalogue, an object
\* without the key slug, an object without the key name, a value that is no
\* object
ConfigItems ==
    { [dict |-> TRUE, keys |-> {"name", "slug"}, name |-> school.name, slug |-> school.slug] :
          school \in SchoolCatalogue }
    \cup { [dict |-> TRUE, keys |-> {"name"}, name |-> "Svenstorps förskola", slug |-> ""],
           [dict |-> TRUE, keys |-> {"slug"}, name |-> "", slug |-> "hovagens-forskola"],
           [dict |-> FALSE, keys |-> {}, name |-> "", slug |-> ""] }

\* SCHOOLS: not set, the empty string, the text [], text that is no JSON, JSON
\* for a number, JSON for a list
SchoolsEnvs ==
    { [kind |-> kind, items |-> <<>>] :
          kind \in {"unset", "empty", "brackets", "malformed", "number"} }
    \cup { [kind |-> "list", items |-> items] :
              items \in UNION {[1..n -> ConfigItems] : n \in 0..MaxSchools} }

\* isinstance(school, dict) and 'name' in school and 'slug' in school
accepts_any_dict(item) == item.dict
is_valid_school(item) == item.dict /\ "name" \in item.keys /\ "slug" \in item.keys

\* the school record as the scheduler reads it: school.get('name'), school.get('slug')
school_of(item) == [name |-> item.name, slug |-> item.slug]

\* for school in schools: if valid: valid_schools.append(school)
RECURSIVE valid_schools(_)
valid_schools(items) ==
    IF items = <<>> THEN <<>>
    ELSE (IF is_valid_school(Head(items)) THEN <<school_of(Head(items))>> ELSE <<>>)
             \o valid_schools(Tail(items))

\* _load_config: [] when SCHOOLS is not set, empty or '[]'; [] when json.loads
\* raises; [] when the value is no list (len() of a number raises TypeError,
\* caught by except Exception); else the items that pass the validation
load_config(env) == IF env.kind # "list" THEN <<>> ELSE valid_schools(env.items)

\* time.sleep(60)
BackoffSeconds == 60

\* UPDATE_INTERVAL values: time.sleep raises ValueError for a negative one
Intervals == {-1, 3600}

\* time.sleep(secs) raises ValueError
sleep_raises(secs) == secs < 0

\* where update_school_sensor goes after create_sensor returned
abort_on_failed_publish(success) == IF success THEN "pause" ELSE "completed"
after_create_sensor(success) == "pause"

SchedInit ==
    /\ schools_env \in SchoolsEnvs
    /\ schools = load_config(schools_env)
    /\ update_interval \in Intervals
    /\ n_weeks \in {1, 2}
    /\ call_site = "initial"
    /\ pc = "update_all_schools"
    /\ school_idx = 1
    /\ to_publish = None
    /\ cycle_log = <<>>

SchedIdle ==
    /\ schools_env = [kind |-> "unset", items |-> <<>>]
    /\ schools = <<>>
    /\ update_interval = 3600
    /\ n_weeks = 1
    /\ call_site = "initial"
    /\ pc = "idle"
    /\ school_idx = 1
    /\ to_publish = None
    /\ cycle_log = <<>>

\* update_all_schools: if not self.schools: return; for school in self.schools
UpdateAllSchools ==
    /\ pc = "update_all_schools"
    /\ cycle_log' = <<>>
    /\ school_idx' = 1
    /\ pc' = IF schools = <<>> THEN "completed" ELSE "update_school_sensor"
    /\ UNCHANGED <<schools_env, schools, update_interval, n_weeks, call_site, to_publish>>
    /\ UNCHANGED <<parse_vars, fetch_vars, asm_vars>>

\* update_school_sensor: if not school_slug: return False
UpdateSchoolSensor ==
    /\ pc = "update_school_sensor"
    /\ IF schools[school_idx].slug = ""
       THEN /\ cycle_log' = Append(cycle_log, [op |-> "no_slug", school |-> school_idx])
            /\ pc' = "pause"
       ELSE /\ cycle_log' = cycle_log
            /\ pc' = "get_school_menu"
    /\ UNCHANGED <<schools_env, schools, update_interval, n_weeks, call_site, school_idx, to_publish>>
    /\ UNCHANGED <<parse_vars, fetch_vars, asm_vars>>

\* menu_data = get_school_menu(school_slug, n_weeks=self.n_weeks), and the
\* choice of the payload: the except branch, the no-data branch, the menu
CallGetSchoolMenu ==
    /\ pc = "get_school_menu"
    /\ \E renders \in BOOLEAN, page \in FetchPages, day \in Todays :
          LET r == get_school_menu_result(renders, page)
          IN  /\ cycle_log' = Append(cycle_log, [op |-> "fetch", school |-> school_idx,
                                                 renders |-> renders,
                                                 next_week |-> next_week_of_call,
                                                 raised |-> r.raised])
              /\ to_publish' =
                     Some(IF r.raised THEN error_payload(schools[school_idx])
                          ELSE IF r.entries = <<>> THEN no_data_payload(schools[school_idx])
                          ELSE menu_payload(schools[school_idx], r.entries, isoformat(day)))
    /\ pc' = "create_sensor"
    /\ UNCHANGED <<schools_env, schools, update_interval, n_weeks, call_site, school_idx>>
    /\ UNCHANGED <<parse_vars, fetch_vars, asm_vars>>

\* self.ha_api.create_sensor(entity_id, state, attributes): returns True, or
\* False on any failure; it never raises an Exception
CreateSensor ==
    /\ pc = "create_sensor"
    /\ \E success \in BOOLEAN :
          /\ cycle_log' = Append(cycle_log, [op |-> "publish", school |-> school_idx,
                                             payload |-> to_publish[1],
                                             success |-> success])
          /\ pc' = after_create_sensor(success)
    /\ to_publish' = None
    /\ UNCHANGED <<schools_env, schools, update_interval, n_weeks, call_site, school_idx>>
    /\ UNCHANGED <<parse_vars, fetch_vars, asm_vars>>

\* time.sleep(2) after update_school_sensor(school) returned, as the log has it
no_courtesy_sleep(idx) == <<>>
courtesy_sleep(idx) == <<[op |-> "sleep", school |-> idx]>>

\* time.sleep(2), then the next school or the end of update_all_schools
Pause ==
    /\ pc = "pause"
    /\ cycle_log' = cycle_log \o courtesy_sleep(school_idx)
    /\ IF school_idx < Len(schools)
       THEN /\ school_idx' = school_idx + 1
            /\ pc' = "update_school_sensor"
       ELSE /\ school_idx' = school_idx
            /\ pc' = "completed"
    /\ UNCHANGED <<schools_env, schools, update_interval, n_weeks, call_site, to_publish>>
    /\ UNCHANGED <<parse_vars, fetch_vars, asm_vars>>

\* update_all_schools returns to run: the next statement is the sleep of the loop
CycleReturns ==
    /\ pc = "completed"
    /\ pc' = "sleep"
    /\ call_site' = "loop"
    /\ UNCHANGED <<schools_env, schools, update_interval, n_weeks, school_idx, to_publish, cycle_log>>
    /\ UNCHANGED <<parse_vars, fetch_vars, asm_vars>>

\* time.sleep(self.update_interval); self.update_all_schools()
\* except Exception: log, then the backoff
Sleep ==
    /\ pc = "sleep"
    /\ pc' = IF sleep_raises(update_interval) THEN "backoff" ELSE "update_all_schools"
    /\ UNCHANGED <<schools_env, schools, update_interval, n_weeks, call_site, school_idx, to_publish,
                   cycle_log>>
    /\ UNCHANGED <<parse_vars, fetch_vars, asm_vars>>

\* time.sleep(60), then the top of the while loop
Backoff ==
    /\ pc = "backoff"
    /\ ~sleep_raises(BackoffSeconds)
    /\ pc' = "sleep"
    /\ UNCHANGED <<schools_env, schools, update_interval, n_weeks, call_site, school_idx, to_publish,
                   cycle_log>>
    /\ UNCHANGED <<parse_vars, fetch_vars, asm_vars>>

\* KeyboardInterrupt, raised at whatever statement is executing.  No except
\* Exception clause catches it.  Inside the try of the while loop it reaches
\* except KeyboardInterrupt: break, and run returns.  In the initial update
\* and in the backoff sleep (which runs inside an except clause) it leaves run
\* and main, whose except Exception does not catch it either.
KeyboardInterrupt ==
    /\ pc \notin {"stopped", "killed", "idle"}
    /\ pc' = IF call_site = "loop" /\ pc # "backoff" THEN "stopped" ELSE "killed"
    /\ UNCHANGED <<schools_env, schools, update_interval, n_weeks, call_site, school_idx, to_publish,
                   cycle_log>>
    /\ UNCHANGED <<parse_vars, fetch_vars, asm_vars>>

\* the statements of the scheduler itself
SchedProgress ==
    \/ UpdateAllSchools
    \/ UpdateSchoolSensor
    \/ CallGetSchoolMenu
    \/ CreateSensor
    \/ Pause
    \/ CycleReturns
    \/ Sleep
    \/ Backoff

-----------------------------------------------------------------------------
(* update_school_sensor after get_school_menu returned menu_data *)

\* the school the harness updates
AsmSchool == [name |-> "Svenstorps förskola", slug |-> "svenstorps-forskola"]

\* if not menu_data: create_sensor(entity_id, "No menu data available", ...)
NoMenuData ==
    /\ asm_pc = "start"
    /\ menu_data = <<>>
    /\ asm_payload' = Some(no_data_payload(AsmSchool))
    /\ asm_pc' = "published"
    /\ UNCHANGED <<menu_data, today, current_menu, parse_vars, fetch_vars, sched_vars>>

\* state, entity_id and attributes from menu_data and current_menu, and
\* create_sensor(entity_id, state, attributes)
PublishMenu ==
    /\ asm_pc = "returned"
    /\ menu_data # <<>>
    /\ asm_payload' = Some(menu_payload(AsmSchool, menu_data, isoformat(today)))
    /\ asm_pc' = "published"
    /\ UNCHANGED <<menu_data, today, current_menu, parse_vars, fetch_vars, sched_vars>>

\* update_school_sensor from the end of get_school_menu on: the except branch
\* for an error, the no-data branch, or the menu of the returned entries
PublishFetched ==
    /\ fetch_pc = "done"
    /\ \E day \in Todays :
          fetch_published' =
              Some(IF fetch_outcome = "raised" THEN error_payload(AsmSchool)
                   ELSE IF fetch_menu = <<>> THEN no_data_payload(AsmSchool)
                   ELSE menu_payload(AsmSchool, fetch_menu, isoformat(day)))
    /\ fetch_pc' = "published"
    /\ UNCHANGED <<also_next_week, driver, selector_idx, next_week_button, fetch_menu,
                   current_entries, next_entries, steps, gm_outcome, fetch_outcome,
                   sessions>>
    /\ UNCHANGED <<parse_vars, asm_vars, sched_vars>>

-----------------------------------------------------------------------------
(* The specifications *)

\* the parser on its own
ParserNext == ParseCall

InitParse == ParseInit /\ FetchIdle /\ AsmIdle /\ SchedIdle

SpecParse == InitParse /\ [][ParserNext]_vars

\* one call of get_school_menu with a next_week argument, and what
\* update_school_sensor publishes for its result or error
FetchNext == FetchStep \/ PublishFetched

InitFetch == FetchInit /\ ParseIdle /\ AsmIdle /\ SchedIdle

SpecFetch == InitFetch /\ [][FetchNext]_vars

\* the assembler: _get_current_menu, and update_school_sensor from the
\* returned menu_data to the publish
AsmNext == GetCurrentMenu \/ NoMenuData \/ PublishMenu

InitAssemble == AsmInit /\ ParseIdle /\ FetchIdle /\ SchedIdle

SpecAssemble == InitAssemble /\ [][AsmNext]_vars

\* the add-on: main() after SkolmatenAddon() was constructed
Init == SchedInit /\ ParseIdle /\ FetchIdle /\ AsmIdle

Next == SchedProgress \/ KeyboardInterrupt

Spec == Init /\ [][Next]_vars

\* the interpreter keeps executing the scheduler's statements, and every sleep
\* ends; nothing obliges a KeyboardInterrupt to arrive
FairSpec == Spec /\ WF_vars(SchedProgress)

-----------------------------------------------------------------------------
(* What the claims about the parser speak of, stated on the trimmed lines *)

TrimmedLines == split_lines(page_text)

DayLineIdx(lines) == {i \in 1..Len(lines) : is_day_line(lines[i])}

\* the section of the day-name line i: the lines after it up to, not including,
\* the next day-name line or the end of the text
SectionIdx(lines, i) ==
    {j \in (i + 1)..Len(lines) : \A k \in (i + 1)..j : ~is_day_line(lines[k])}

QualifyingCourseLine(line) ==
    /\ Len(line) > 5
    /\ ~matches_date(line)
    /\ ~Contains(line, "Med reservation")

QualifyingIdx(lines, i) == {j \in SectionIdx(lines, i) : QualifyingCourseLine(lines[j])}

\* the day-name lines whose section holds a qualifying course line
ProductiveIdx(lines) == {i \in DayLineIdx(lines) : QualifyingIdx(lines, i) # {}}

Max(S) == CHOOSE x \in S : \A y \in S : y <= x
Min(S) == CHOOSE x \in S : \A y \in S : x <= y

\* the elements of a set of numbers in increasing order
RECURSIVE Ascending(_)
Ascending(S) == IF S = {} THEN <<>> ELSE <<Min(S)>> \o Ascending(S \ {Min(S)})

LinesAt(lines, idx) == [k \in 1..Len(idx) |-> lines[idx[k]]]

\* the date lines of every section scanned up to and including the section of i
DatesSeenIdx(lines, i) ==
    {j \in (Min(DayLineIdx(lines)) + 1)..Max(SectionIdx(lines, i) \cup {i}) :
        matches_date(lines[j])}

\* C1: one entry per day-name line whose section holds a qualifying course line,
\* none for the other day-name lines, in the order of the day-name lines, each
\* with a non-empty courses list
C1_OneEntryPerProductiveDay ==
    parse_pc = "returned" =>
        LET lines == TrimmedLines
            idx == Ascending(ProductiveIdx(lines))
        IN  /\ Len(menu_list) = Len(idx)
            /\ [k \in 1..Len(menu_list) |-> menu_list[k].weekday] = LinesAt(lines, idx)
            /\ \A k \in 1..Len(menu_list) : menu_list[k].courses # <<>>

\* C2: the courses of an emitted entry are exactly the lines of its section that
\* are no date line, hold no "Med reservation", are longer than 5 characters
\* and hold no day name, in text order
C2_CoursesAreTheQualifyingLines ==
    parse_pc = "returned" =>
        LET lines == TrimmedLines
            idx == Ascending(ProductiveIdx(lines))
        IN  \A k \in 1..Len(menu_list) :
                /\ k <= Len(idx)
                /\ menu_list[k].courses =
                       LinesAt(lines, Ascending(QualifyingIdx(lines, idx[k])))
                /\ \A c \in 1..Len(menu_list[k].courses) :
                       LET course == menu_list[k].courses[c]
                       IN  /\ ~matches_date(course)
                           /\ ~Contains(course, "Med reservation")
                           /\ Len(course) > 5
                           /\ ~is_day_line(course)

C2_Witness ==
    /\ parse_pc = "returned"
    /\ page_text = <<"Måndag 3 mars", " Soppa ", "Med reservation för ändringar",
                     "Fisk Björkeby">>
    /\ Len(menu_list) = 1
    /\ menu_list[1].courses = <<"Fisk Björkeby">>

ScenarioDates ==
    (page_text = ScenarioText /\ ~WeekTable[week_title].raises) =>
        /\ Len(menu_list) = 2
        /\ menu_list[1].date = Some("2024-03-04")
        /\ menu_list[2].date = Some("2024-03-04")

\* C3: the date of an emitted entry is the last date line of the sections scanned
\* up to and including its own, absent only if there is none; in the example
\* page both entries carry 2024-03-04
C3_DateIsLastDateLineSeen ==
    parse_pc = "returned" =>
        LET lines == TrimmedLines
            idx == Ascending(ProductiveIdx(lines))
        IN  /\ \A k \in 1..Len(menu_list) :
                   /\ k <= Len(idx)
                   /\ LET seen == DatesSeenIdx(lines, idx[k])
                      IN  menu_list[k].date =
                              IF seen = {} THEN None ELSE Some(lines[Max(seen)])
            /\ ScenarioDates

\* a later date line of the same section overwrites an earlier one, and a day
\* inherits the date of an earlier day that was dropped
C3_Witness ==
    /\ parse_pc = "returned"
    /\ \/ /\ page_text = <<"Måndag 3 mars", "2024-03-04", "2024-03-05",
                           "Fisk Björkeby">>
          /\ Len(menu_list) = 1
          /\ menu_list[1].date = Some("2024-03-05")
       \/ /\ page_text = <<"Måndag 3 mars", "2024-03-04", "Tisdag 4 mars",
                           "Fisk Björkeby">>
          /\ Len(menu_list) = 1
          /\ menu_list[1].date = Some("2024-03-04")

LastToken(title) == LET toks == Split(title) IN toks[Len(toks)]

TrailingDigitToken(title) == Split(title) # <<>> /\ IntParses(LastToken(title))

WithoutWeek(entries) ==
    [k \in 1..Len(entries) |->
        [weekday |-> entries[k].weekday, date |-> entries[k].date,
         courses |-> entries[k].courses]]

\* C4: every emitted entry has the week of the title's trailing digit token, or
\* no week; and a title without a trailing digit token changes nothing else:
\* the entries are those emitted under the title "Vecka 10", but for the week
C4_WeekTitleOnlySetsWeek ==
    parse_pc = "returned" =>
        /\ \A k \in 1..Len(menu_list) :
               menu_list[k].week =
                   IF TrailingDigitToken(week_title)
                   THEN Some(IntOf(LastToken(week_title))) ELSE None
        /\ ~TrailingDigitToken(week_title) =>
               WithoutWeek(menu_list) =
                   WithoutWeek(parse_menu_data(page_text, "Vecka 10"))

-----------------------------------------------------------------------------
(* What the claims about the scheduler speak of *)

\* the entity id of each school of the catalogue, written out
ExpectedEntityId(slug) ==
    CASE slug = "svenstorps-forskola" -> "sensor.skolmaten_svenstorps_forskola"
      [] slug = "hovagens-forskola" -> "sensor.skolmaten_hovagens_forskola"
      [] OTHER -> "sensor.skolmaten_"

\* update_school_sensor has returned for the school of log entry k
ReturnedAfter(k) ==
    \E m \in (k + 1)..Len(cycle_log) :
        cycle_log[m].op = "sleep" /\ cycle_log[m].school = cycle_log[k].school

DegradedPublish(k, m) ==
    /\ m <= Len(cycle_log)
    /\ cycle_log[m].op = "publish"
    /\ cycle_log[m].school = cycle_log[k].school
    /\ cycle_log[m].payload.entity_id = ExpectedEntityId(schools[cycle_log[k].school].slug)
    /\ cycle_log[m].payload.state = "Error fetching menu"
    /\ DOMAIN cycle_log[m].payload.calendar = {}

FailedFetchIsPublished ==
    \A k \in 1..Len(cycle_log) :
        (cycle_log[k].op = "fetch" /\ cycle_log[k].raised /\ ReturnedAfter(k))
            => DegradedPublish(k, k + 1)

\* a failed fetch is followed by create_sensor, or by the shutdown; it never
\* reaches the except clause of run
FailedFetchIsHandled ==
    (pc = "get_school_menu" /\ pc' # pc) => pc' \in {"create_sensor", "stopped", "killed"}

\* C5: whenever the fetch of a source fails in update_school_sensor, the next
\* thing the scheduler does for it is a publish for its entity id with state
\* "Error fetching menu" and an empty calendar, and the failure is handled
\* inside update_school_sensor
C5_FailedFetchGivesDegradedPublish ==
    [](FailedFetchIsPublished) /\ [][FailedFetchIsHandled]_vars

C5_Witness ==
    /\ pc = "pause"
    /\ Len(cycle_log) >= 2
    /\ cycle_log[1].op = "fetch" /\ cycle_log[1].raised
    /\ schools[1].slug = "svenstorps-forskola"
    /\ DegradedPublish(1, 2)

\* the fetches and publishes of the log, in order
Attempts(log) ==
    LET keep == SelectSeq(log, LAMBDA e : e.op \in {"fetch", "publish"})
    IN  [k \in 1..Len(keep) |-> <<keep[k].op, keep[k].school>>]

\* a fetch and then a publish for each source of wanted among the first n
RECURSIVE FetchThenPublish(_, _)
FetchThenPublish(n, wanted) ==
    IF n = 0 THEN <<>>
    ELSE FetchThenPublish(n - 1, wanted)
             \o (IF n \in wanted THEN <<<<"fetch", n>>, <<"publish", n>>>> ELSE <<>>)

\* C6 as claimed: a completed cycle made a fetch and then a publish for every
\* configured source, once each, in configured order
C6_EverySourceAttempted ==
    pc = "completed" =>
        Attempts(cycle_log) = FetchThenPublish(Len(schools), 1..Len(schools))

\* C6 as amended: a completed cycle made a fetch and then a publish for every
\* configured source that has a non-empty slug, once each, in configured order,
\* whatever the outcome of the fetches and publishes of the other sources; a
\* source with an empty slug is passed over without a fetch or a publish
C6_EverySourceWithSlugAttempted ==
    pc = "completed" =>
        Attempts(cycle_log) =
            FetchThenPublish(Len(schools),
                             {i \in 1..Len(schools) : schools[i].slug # ""})

\* a completed cycle in which the publish of the first source failed and the
\* second source was fetched and published all the same
C6_Witness ==
    /\ pc = "completed"
    /\ Len(schools) = 2
    /\ \E k \in 1..Len(cycle_log) :
          /\ cycle_log[k].op = "publish"
          /\ cycle_log[k].school = 1
          /\ ~cycle_log[k].success
    /\ \E k \in 1..Len(cycle_log) : cycle_log[k].op = "publish" /\ cycle_log[k].school = 2

Shutdown == pc \in {"stopped", "killed"}

\* an error of the loop body leads to the backoff, and the backoff to the top
\* of the loop
BackoffThenResume ==
    /\ (pc = "sleep" /\ pc' # pc) => pc' \in {"update_all_schools", "backoff", "stopped"}
    /\ (pc = "backoff" /\ pc' # pc) => pc' \in {"sleep", "killed"}

\* the loop ends only by a shutdown signal
EndsOnlyOnSignal == (~Shutdown /\ Shutdown') => KeyboardInterrupt

\* C7: the loop ends only on a shutdown signal, an error of the loop body is
\* followed by the backoff and the top of the loop, and every completed cycle
\* is followed by the start of another cycle unless a shutdown signal arrives
C7_LoopKeepsCycling ==
    /\ [][BackoffThenResume /\ EndsOnlyOnSignal]_vars
    /\ (pc = "completed") ~> (pc = "update_all_schools" \/ Shutdown)

-----------------------------------------------------------------------------
(* What the claims about get_menu speak of *)

SelectorOp(k) == "selector" \o ToString(k)

\* the label variants under which a control was found
FoundVariants == {k \in 1..Len(selectors) : \E m \in 1..Len(steps) :
                      steps[m] = Step(SelectorOp(k), TRUE)}

\* the label variants that were tried
TriedVariants == {k \in 1..Len(selectors) : Performed(SelectorOp(k))}

Count(op) == Cardinality({m \in 1..Len(steps) : steps[m].op = op})

GetMenuReturned == gm_outcome = "returned"

CurrentWeek == current_entries[1]

\* the variants are tried in order, from the first, and the search happens
\* only when the next week is asked for
TriedInOrder ==
    /\ \E n \in 0..Len(selectors) : TriedVariants = 1..n
    /\ \A a, b \in 1..Len(steps) :
          (/\ a < b
           /\ \E k \in TriedVariants : steps[a].op = SelectorOp(k)
           /\ \E k \in TriedVariants : steps[b].op = SelectorOp(k))
              => \E i, j \in TriedVariants :
                     i < j /\ steps[a].op = SelectorOp(i) /\ steps[b].op = SelectorOp(j)
    /\ ~also_next_week => (TriedVariants = {} /\ Count("click") = 0)

\* what get_menu returns, when it returns
ReturnsWeeks ==
    GetMenuReturned =>
        /\ (also_next_week /\ FoundVariants # {}) =>
               /\ next_entries # None
               /\ fetch_menu = CurrentWeek \o next_entries[1]
        /\ (also_next_week /\ FoundVariants = {}) =>
               /\ fetch_menu = CurrentWeek
               /\ Count("click") = 0
        /\ ~also_next_week => fetch_menu = CurrentWeek

\* C8 as claimed: the result is the current week's entries, followed by the
\* next week's when it is asked for and a control is found; the variants are
\* tried in order and the first one found is clicked, once; without a control,
\* or when the next week is not asked for, nothing is clicked
C8_FirstHitClicked ==
    /\ ReturnsWeeks
    /\ TriedInOrder
    /\ Count("click") <= 1
    /\ Performed("click") => next_week_button = Some(Min(FoundVariants))

\* C8 as amended: as claimed, but the control clicked is the last one found,
\* which is the first found whose label text could be read or, when no label
\* could be read, the last variant under which a control was found
C8_LastFoundClicked ==
    /\ ReturnsWeeks
    /\ TriedInOrder
    /\ Count("click") <= 1
    /\ Performed("click") =>
           /\ next_week_button = Some(Max(FoundVariants))
           /\ \A k \in FoundVariants :
                  k < Max(FoundVariants) => Failed(SelectorOp(k) \o ".text")

\* both weeks were parsed and returned, after one click
C8_Witness ==
    /\ GetMenuReturned
    /\ also_next_week
    /\ Count("click") = 1
    /\ next_week_button = Some(2)
    /\ Len(CurrentWeek) = 2
    /\ Len(next_entries[1]) = 1
    /\ Len(fetch_menu) = 3

\* no operation on the browser is performed twice
NoRepeat == \A a, b \in 1..Len(steps) : a # b => steps[a].op # steps[b].op

\* the operations of get_menu itself, outside _parse_menu_data
RaisingOps == {"get", "page_title", "wait", "click", "wait_next"}

\* the operations the claim names: navigation, the waits for the container,
\* reading the container text, reading the week title
ClaimedOps ==
    {"get", "page_title", "wait", "wait_next", "parse_current.wait", "parse_next.wait",
     "parse_current.text", "parse_next.text", "parse_current.title", "parse_next.title"}

\* C9 as claimed: a failure of the navigation, of a wait for the container, of
\* reading the container text or of reading the week title makes get_menu
\* raise, and nothing is repeated
C9_EveryFailureRaises ==
    /\ (gm_outcome # "none" /\ \E op \in ClaimedOps : Failed(op)) => gm_outcome = "raised"
    /\ NoRepeat

WeekAbsent(entries) == \A k \in 1..Len(entries) : entries[k].week = None

\* C9 as amended: get_menu raises exactly when the navigation, its own wait
\* for the container, the click or the wait after the click failed, and then
\* nothing but the page source is read after the failed operation; a failure
\* of the wait or of the text read inside _parse_menu_data is swallowed and that
\* parse returns no entries; a failure of the title read leaves the entries
\* without a week; in no case is an operation repeated
C9_OnlyOwnFailuresRaise ==
    /\ NoRepeat
    /\ gm_outcome # "none" =>
           /\ gm_outcome = "raised" <=> \E op \in RaisingOps : Failed(op)
           /\ gm_outcome = "raised" =>
                  /\ steps[Len(steps)].op = "page_source"
                  /\ ~steps[Len(steps) - 1].ok
                  /\ \A m \in 1..(Len(steps) - 2) :
                         steps[m].op \in RaisingOps => steps[m].ok
           /\ (Failed("parse_current.wait") \/ Failed("parse_current.text"))
                  => current_entries = Some(<<>>)
           /\ (Failed("parse_next.wait") \/ Failed("parse_next.text"))
                  => next_entries = Some(<<>>)
           /\ Failed("parse_current.title") => WeekAbsent(CurrentWeek)
           /\ Failed("parse_next.title") => WeekAbsent(next_entries[1])

\* the wait after the click timed out and get_menu raised
C9_Witness ==
    /\ gm_outcome = "raised"
    /\ Failed("wait_next")
    /\ Len(CurrentWeek) = 2

-----------------------------------------------------------------------------
(* What the claim about the assembler speaks of *)

TodayIso ==
    CASE today.day = 4 -> "2024-03-04"
      [] today.day = 5 -> "2024-03-05"
      [] OTHER -> "2024-03-06"

MatchingIdx == {k \in 1..Len(menu_data) : menu_data[k].date = Some(TodayIso)}

\* C10: today's entry is the first entry whose date is today's ISO date, and
\* there is none exactly when no entry has that date
C10_FirstEntryOfToday ==
    asm_pc = "returned" =>
        current_menu = IF MatchingIdx = {} THEN None
                       ELSE Some(menu_data[Min(MatchingIdx)])

\* two entries carry today's date, after one without a date; the earlier wins
C10_Witness ==
    /\ asm_pc = "returned"
    /\ Len(menu_data) = 3
    /\ menu_data[1].date = None
    /\ MatchingIdx = {2, 3}
    /\ menu_data[2] # menu_data[3]
    /\ current_menu = Some(menu_data[2])

-----------------------------------------------------------------------------
(* What the claims about the published state and calendar speak of *)

\* the joined courses of the harness entries, cut to 255 characters, written out
ExpectedState(courses) ==
    CASE courses = ShortCourses -> "Fisk Björkeby"
      [] courses = FittingCourses -> Filler(126) \o ", " \o Filler(127)
      [] OTHER -> Filler(127) \o ", " \o Filler(126)

PublishedState == asm_payload[1].state

\* the state published for entries of which one has today's date
StateOfTodaysEntry ==
    MatchingIdx # {} =>
        PublishedState = ExpectedState(menu_data[Min(MatchingIdx)].courses)

\* C11 as claimed: the published state is the comma-joined courses of today's
\* entry cut to 255 characters when an entry has today's date, it is "No menu
\* for today" whenever no entry has today's date, and it is never longer than
\* 255 characters
C11_StateOfTodayOrSentinel ==
    asm_pc = "published" =>
        /\ StateOfTodaysEntry
        /\ MatchingIdx = {} => PublishedState = "No menu for today"
        /\ Len(PublishedState) <= 255

\* C11 as amended: as claimed for a fetch that returned at least one entry;
\* for a fetch that returned no entry the state is "No menu data available"
C11_StateOfTodayOrSentinels ==
    asm_pc = "published" =>
        /\ StateOfTodaysEntry
        /\ (MatchingIdx = {} /\ menu_data # <<>>) => PublishedState = "No menu for today"
        /\ menu_data = <<>> => PublishedState = "No menu data available"
        /\ Len(PublishedState) <= 255

\* today's entry has courses of 256 joined characters, and 255 were published
C11_Witness ==
    /\ asm_pc = "published"
    /\ MatchingIdx # {}
    /\ menu_data[Min(MatchingIdx)].courses = LongCourses
    /\ Len(PublishedState) = 255
    /\ PublishedState # join_courses(LongCourses)

\* the calendar key the claim gives an entry: the week number in decimal, or
\* "Unknown" for an entry without a week
ClaimedKey(menu_item) ==
    CASE menu_item.week = None -> "Unknown"
      [] menu_item.week = Some(10) -> "10"
      [] OTHER -> "11"

PublishedCalendar == asm_payload[1].calendar

\* the entries of menu_data that the claim puts under a key, in fetch order
EntriesUnder(key) ==
    LinesAt(menu_data,
            Ascending({k \in 1..Len(menu_data) : ClaimedKey(menu_data[k]) = key}))

\* C12: the calendar has the key str(week) for the entries of each week number
\* and the key "Unknown" for the entries without a week; under each key are
\* exactly the entries of that key, each once, in fetch order
C12_CalendarKeyedByWeekOrUnknown ==
    asm_pc = "published" =>
        /\ DOMAIN PublishedCalendar = {ClaimedKey(menu_data[k]) : k \in 1..Len(menu_data)}
        /\ \A key \in DOMAIN PublishedCalendar :
               PublishedCalendar[key] = EntriesUnder(key)

-----------------------------------------------------------------------------
(* What the further claims about the scheduler speak of *)

\* the fetch of log entry k asks for the weeks that n_weeks names
RequestsConfiguredWeeks(k) == cycle_log[k].next_week = Some(n_weeks = 2)

\* the fetch of log entry k gave entries, and what was published for it next
\* is not the error state
DeliveredAndPublished(k) ==
    /\ ~cycle_log[k].raised
    /\ (k < Len(cycle_log)) =>
           /\ cycle_log[k + 1].op = "publish"
           /\ cycle_log[k + 1].payload.state # "Error fetching menu"

\* C13: every fetch of the scheduler asks for the current week when n_weeks
\* is 1 and for the next week as well when it is 2, and the fetch of a source
\* whose page renders gives its entries to the scheduler, which publishes
\* them as menu data and not as a fetch error
C13_WeeksControlFetch ==
    \A k \in 1..Len(cycle_log) :
        cycle_log[k].op = "fetch" =>
            /\ RequestsConfiguredWeeks(k)
            /\ cycle_log[k].renders => DeliveredAndPublished(k)

\* the statements of update_school_sensor
InSource == pc \in {"update_school_sensor", "get_school_menu", "create_sensor"}

Slept(school, from, to) ==
    \E m \in from..to : cycle_log[m].op = "sleep" /\ cycle_log[m].school = school

\* whatever the log holds for one source is separated by the sleep of that
\* source from whatever it holds for a later one, and every source before the
\* one in progress has had its sleep
PauseLogged ==
    /\ \A a, b \in 1..Len(cycle_log) :
           (a < b /\ cycle_log[a].school # cycle_log[b].school)
               => Slept(cycle_log[a].school, a, b)
    /\ InSource => \A i \in 1..(school_idx - 1) : Slept(i, 1, Len(cycle_log))
    /\ pc = "completed" => \A i \in 1..Len(schools) : Slept(i, 1, Len(cycle_log))

\* the processing of a source starts at the start of the cycle or after the
\* pause that follows the previous source, and of everything that can end the
\* processing of a source only the shutdown is not followed by the pause
StartsAfterPause ==
    /\ (pc' = "update_school_sensor" /\ pc # pc') =>
           \/ pc = "update_all_schools" /\ school_idx' = 1
           \/ pc = "pause" /\ school_idx' = school_idx + 1
    /\ (InSource /\ ~InSource') => (pc' = "pause" \/ Shutdown')

\* C14: in every cycle the pause takes place between the end of one source
\* and the start of the next, whether the source had no slug, its fetch
\* failed or its publish failed or succeeded; no source is started right
\* after the previous one
C14_PauseBetweenSources == [](PauseLogged) /\ [][StartsAfterPause]_vars

\* a cycle of two sources: the first has no slug and was followed by the
\* pause, the second was fetched and its publish failed, and the pause followed
C14_Witness ==
    /\ pc = "completed"
    /\ Len(schools) = 2
    /\ Len(cycle_log) = 5
    /\ cycle_log[1].op = "no_slug" /\ cycle_log[1].school = 1
    /\ cycle_log[2].op = "sleep" /\ cycle_log[2].school = 1
    /\ cycle_log[3].op = "fetch" /\ cycle_log[3].school = 2
    /\ cycle_log[4].op = "publish" /\ ~cycle_log[4].success
    /\ cycle_log[5].op = "sleep" /\ cycle_log[5].school = 2

\* a source is between its fetch and the end of its publish
MidSource == pc \in {"get_school_menu", "create_sensor"}

\* the loop was left by except KeyboardInterrupt: break, and run returned
OrderlyStop == pc = "stopped"

\* C15: the scheduler stops for a shutdown request only at the top of a loop
\* iteration, between sources or between cycles, never between the start of a
\* source's fetch and the end of its publish, and whenever it stops, the
\* initial cycle included, it stops by leaving the loop in an orderly way
C15_ShutdownAtLoopTop ==
    [][(~Shutdown /\ Shutdown') => (OrderlyStop' /\ ~MidSource)]_vars

\* SCHOOLS names no valid source: it is missing, empty, malformed, no list,
\* or a list without a record that has both name and slug
NoValidSource ==
    \/ schools_env.kind # "list"
    \/ \A k \in 1..Len(schools_env.items) :
           ~(schools_env.items[k].dict
             /\ {"name", "slug"} \subseteq schools_env.items[k].keys)

\* nothing was fetched or published, and nothing is about to be
NoFetchNoPublish ==
    /\ cycle_log = <<>>
    /\ to_publish = None
    /\ pc \notin {"update_school_sensor", "get_school_menu", "create_sensor", "pause"}

\* C16: when SCHOOLS names no valid source the scheduler never fetches and
\* never publishes, it ends only by a shutdown signal, and unless such a
\* signal arrives it comes back to the sleep of its loop again and again
C16_IdlesWithoutSources ==
    /\ [](NoValidSource => NoFetchNoPublish)
    /\ [][NoValidSource => EndsOnlyOnSignal]_vars
    /\ NoValidSource => []<>(pc = "sleep" \/ Shutdown)

\* SCHOOLS is a list of two records, none with both name and slug; the
\* initial cycle and a cycle of the loop have completed without a fetch
C16_Witness ==
    /\ schools_env.kind = "list"
    /\ Len(schools_env.items) = 2
    /\ NoValidSource
    /\ call_site = "loop"
    /\ pc = "completed"
    /\ cycle_log = <<>>

-----------------------------------------------------------------------------
(* What the claims about the browser session and the next week speak of *)

\* get_school_menu has ended, by a return or by an error
FetchEnded == fetch_pc \in {"done", "published"}

\* C17: never more than one browser session is open, the driver reference is
\* set exactly while the session of the fetch is open, and when
\* get_school_menu has ended, by the return of get_menu or by any error it
\* raised, the session is closed and the reference cleared, so that none is
\* open while the scheduler pauses or sleeps afterwards
C17_SessionClosedOnEveryExit ==
    /\ sessions \in {0, 1}
    /\ driver = "open" <=> sessions = 1
    /\ FetchEnded => (sessions = 0 /\ driver = "none")

\* a session was opened, get_menu raised on the click, and get_school_menu
\* ended with the session closed
C17_Witness ==
    /\ fetch_pc = "done"
    /\ fetch_outcome = "raised"
    /\ Failed("click")
    /\ sessions = 0
    /\ driver = "none"

\* the next week was asked for, a control was found and clicked, and the
\* container did not appear in time
NextWeekTimedOut ==
    /\ also_next_week
    /\ next_week_button # None
    /\ \E m \in 1..Len(steps) : steps[m] = Step("click", TRUE)
    /\ Failed("wait_next")

\* C18: when the container does not appear after the click on the next-week
\* control, get_menu and get_school_menu raise, the entries parsed for the
\* current week are not returned, and what is published for the source is
\* the error state with an empty calendar, not the current week's menu
C18_NextWeekTimeoutFailsFetch ==
    NextWeekTimedOut =>
        /\ fetch_pc \notin {"parse_next", "return"}
        /\ next_entries = None
        /\ gm_outcome # "none" => gm_outcome = "raised"
        /\ FetchEnded => fetch_outcome = "raised"
        /\ fetch_pc = "published" =>
               /\ fetch_published[1].state = "Error fetching menu"
               /\ DOMAIN fetch_published[1].calendar = {}

\* two entries were parsed for the current week, the wait after the click
\* timed out, and the error state was published
C18_Witness ==
    /\ NextWeekTimedOut
    /\ fetch_pc = "published"
    /\ Len(CurrentWeek) = 2
    /\ fetch_published[1].state = "Error fetching menu"

====
